---- MODULE Spec2Model ----
(***************************************************************************)
(* A state-machine model of mpf::EventBusService                           *)
(* (src/src/event_bus_service.cpp): the subscription table and its         *)
(* subscriber index, the dispatcher (publish / publishSync / deliverEvent) *)
(* with its queued (Qt::QueuedConnection) work items, and the              *)
(* request/response registry.                                              *)
(*                                                                         *)
(* Strings are sequences of one-character strings.  A critical section     *)
(* (the scope of one QMutexLocker on m_mutex) is one atomic step; the code *)
(* between two critical sections of deliverEvent is split into the steps   *)
(* that other threads can interleave with.                                 *)
(***************************************************************************)
EXTENDS Integers, Sequences, FiniteSets, TLC

(***************************************************************************)
(* Bounds of the model                                                     *)
(***************************************************************************)
\* number of distinct subscription ids QUuid::createUuid can hand out
MaxIds == 2
\* number of publish / publishSync calls in one run
MaxPublish == 1
\* number of request calls in one run of the request/response registry
MaxRequest == 2
\* number of bus calls one thread makes in one run of the lock discipline
MaxCalls == 2
\* how deep bus calls nest (a call made from a callback of a call)
MaxDepth == 2
\* number of publish, publishSync and request calls in one run of the two
\* channels together
MaxChannelCalls == 2
\* number of publish / publishSync calls in one run of the topic statistics
MaxStatsPublish == 3
\* number of navigationChanged signals and of registered routes in one run
\* of the navigation service
MaxNav == 3
MaxRoutes == 2
\* lengths of the topics and patterns given to matchesTopic
MaxTopicLen == 5
MaxPatternLen == 4

Threads == {1, 2}
Ids == 1..MaxIds
Subscribers == {"s1", "s2"}
\* SubscriptionOptions::priority: the default and a higher one
Priorities == {0, 10}
\* a handler is named by the id of the subscribe call that passed it;
\* NoHandler is the empty std::function (nullptr)
NoHandler == 0
DataVals == {"d1"}

Patterns == {<<"a", "/", "*">>}
Topics == {<<"a", "/", "b">>, <<"d">>}
\* the threads that publish, and the sender ids they publish with
Publishers == {1}
Senders == {"s1"}

(***************************************************************************)
(* Topic matcher: compilePattern and QRegularExpression::match             *)
(***************************************************************************)
AlnumChars == {"a", "b", "c", "d", "_"}

\* QRegularExpression::escape: a backslash before every character that is
\* not a letter, a digit or an underscore
RECURSIVE RegexEscape(_)
RegexEscape(s) ==
    IF s = <<>> THEN <<>>
    ELSE (IF Head(s) \in AlnumChars THEN <<Head(s)>> ELSE <<"\\", Head(s)>>)
         \o RegexEscape(Tail(s))

IsPrefix(p, s) == Len(p) <= Len(s) /\ SubSeq(s, 1, Len(p)) = p

\* QString::replace(before, after): every non-overlapping occurrence, left to right
RECURSIVE StrReplace(_, _, _)
StrReplace(s, before, after) ==
    IF s = <<>> THEN <<>>
    ELSE IF IsPrefix(before, s)
         THEN after \o StrReplace(SubSeq(s, Len(before) + 1, Len(s)), before, after)
         ELSE <<Head(s)>> \o StrReplace(Tail(s), before, after)

\* the three texts of compilePattern; each replacement text is kept as one
\* element of the sequence (one regex token)
EscStar == <<"\\", "*">>
DoubleStarPlaceholder == <<"<<DOUBLE_STAR>>">>
SegToken == "[^/]+"
AnyToken == ".+"

\* variant of SubstituteWildcards that replaces * before **
SubstituteDoubleStarMutant(esc) ==
    StrReplace(StrReplace(esc, EscStar, <<SegToken>>), EscStar \o EscStar, <<AnyToken>>)

\* lines 374-376: ** first (through the placeholder), then *, then the placeholder
SubstituteWildcards(esc) ==
    StrReplace(
        StrReplace(
            StrReplace(esc, EscStar \o EscStar, DoubleStarPlaceholder),
            EscStar, <<SegToken>>),
        DoubleStarPlaceholder, <<AnyToken>>)

\* the body of the regex between ^ and $
compilePattern(pattern) == SubstituteWildcards(RegexEscape(pattern))

\* PCRE semantics of the compiled expression ^body$ on a subject: an escaped
\* or plain character matches itself, [^/]+ one or more characters other
\* than "/", .+ one or more characters other than a newline, and $ matches
\* at the end of the subject or before a final newline
RECURSIVE RegexMatch(_, _)
RegexMatch(re, t) ==
    IF re = <<>> THEN t = <<>> \/ t = <<"\n">>
    ELSE IF Head(re) = "\\"
         THEN /\ Len(re) >= 2 /\ t # <<>> /\ t[1] = re[2]
              /\ RegexMatch(SubSeq(re, 3, Len(re)), Tail(t))
    ELSE IF Head(re) = SegToken
         THEN \E k \in 1..Len(t) :
                 /\ \A i \in 1..k : t[i] # "/"
                 /\ RegexMatch(Tail(re), SubSeq(t, k + 1, Len(t)))
    ELSE IF Head(re) = AnyToken
         THEN \E k \in 1..Len(t) :
                 /\ \A i \in 1..k : t[i] # "\n"
                 /\ RegexMatch(Tail(re), SubSeq(t, k + 1, Len(t)))
    ELSE /\ t # <<>> /\ t[1] = Head(re)
         /\ RegexMatch(Tail(re), Tail(t))

matchesTopic(topic, pattern) == RegexMatch(compilePattern(pattern), topic)

(***************************************************************************)
(* State                                                                   *)
(***************************************************************************)
VARIABLES
    m_subscriptions,    \* id -> Subscription, the live subscriptions
    m_subscriberIndex,  \* subscriberId -> list of its subscription ids
    m_topicStats,       \* topic -> [eventCount, lastEventTime]
    m_requestHandlers,  \* topic -> RequestHandlerEntry
    created,            \* every Subscription ever inserted, in subscribe order
    clock,              \* the wall clock: the last value read from it
    frame,              \* per thread: the publish call it is in or has left
    queue,              \* queued work items of the bus object's event loop
    executed,           \* the work items the event loop has run, in order
    ret,                \* the last single-step operation and its return value
    crashed,            \* the process has died
    m_mutex,            \* the thread that holds m_mutex, 0 when it is free
    calls,              \* per thread: the stack of bus calls it is inside
    m_currentRoute,     \* NavigationService: the current route
    m_routes,           \* NavigationService: the registered RouteEntry list
    navigationChanged   \* NavigationService: the signals emitted, in order

vars == <<m_subscriptions, m_subscriberIndex, m_topicStats, m_requestHandlers,
          created, clock, frame, queue, executed, ret, crashed, m_mutex, calls,
          m_currentRoute, m_routes, navigationChanged>>

tableVars == <<m_subscriptions, m_subscriberIndex, created>>
dispatchVars == <<m_topicStats, clock, frame, queue, executed, crashed>>
lockVars == <<m_mutex, calls>>
busVarsNoRet == <<m_subscriptions, m_subscriberIndex, m_topicStats,
                 m_requestHandlers, created, clock, frame, queue, executed,
                 crashed>>
navVars == <<m_currentRoute, m_routes, navigationChanged>>

EmptyMap == [x \in {} |-> 0]
NoEvent == [topic |-> <<>>, senderId |-> "", data |-> "", timestamp |-> 0]
\* op: the call the thread is in (or has last left); result: how it ended
IdleFrame == [pc |-> "idle", op |-> "none", event |-> NoEvent,
              matches |-> <<>>, pos |-> 0, notified |-> 0, ran |-> <<>>,
              emitted |-> <<>>, dangling |-> FALSE, handler |-> "",
              result |-> "none"]

InitBus ==
    /\ m_subscriptions = EmptyMap
    /\ m_subscriberIndex = EmptyMap
    /\ m_topicStats = EmptyMap
    /\ m_requestHandlers = EmptyMap
    /\ created = <<>>
    /\ clock = 0
    /\ frame = [t \in Threads |-> IdleFrame]
    /\ queue = <<>>
    /\ executed = <<>>
    /\ crashed = FALSE
    /\ m_mutex = 0
    /\ calls = [t \in Threads |-> [stack |-> <<>>, made |-> 0]]
    /\ m_currentRoute = ""
    /\ m_routes = <<>>
    /\ navigationChanged = <<>>

Init ==
    /\ InitBus
    /\ ret = [op |-> "none", val |-> 0]

\* helpers on maps and lists
MapPut(m, k, v) == [x \in DOMAIN m \cup {k} |-> IF x = k THEN v ELSE m[x]]
MapRemove(m, ks) == [x \in DOMAIN m \ ks |-> m[x]]
SeqRange(s) == {s[i] : i \in 1..Len(s)}
RECURSIVE RemoveAll(_, _)
RemoveAll(s, x) ==
    IF s = <<>> THEN <<>>
    ELSE (IF Head(s) = x THEN <<>> ELSE <<Head(s)>>) \o RemoveAll(Tail(s), x)

\* a bus call can be made, while the process lives, by a thread that is in no
\* publish or request call, or from inside a handler that publishSync or
\* request is running
CanCall ==
    /\ ~crashed
    /\ \E t \in Threads : frame[t].pc \in {"idle", "handler", "responder"}

IssuedIds == {created[i].id : i \in 1..Len(created)}

\* line 118: QUuid::createUuid returns an id no earlier call has returned; ids
\* are named 1, 2, ... in the order they are created
NextId == Len(created) + 1

(***************************************************************************)
(* Subscription table                                                      *)
(***************************************************************************)
\* variant of IndexAppend that overwrites the list instead of appending to it
IndexAppendMutant(index, subscriberId, id) ==
    MapPut(index, subscriberId, <<id>>)

\* line 129: m_subscriberIndex[sub.subscriberId].append(sub.id)
IndexAppend(index, subscriberId, id) ==
    MapPut(index, subscriberId,
           (IF subscriberId \in DOMAIN index THEN index[subscriberId] ELSE <<>>)
           \o <<id>>)

subscribe(pattern, subscriberId, handler, options) ==
    /\ CanCall
    /\ \E id \in {NextId} \cap Ids :
        LET sub == [id |-> id, pattern |-> pattern, subscriberId |-> subscriberId,
                    handler |-> IF handler THEN id ELSE NoHandler,
                    options |-> options]
        IN /\ m_subscriptions' = MapPut(m_subscriptions, id, sub)
           /\ m_subscriberIndex' = IndexAppend(m_subscriberIndex, subscriberId, id)
           /\ created' = Append(created, sub)
           /\ ret' = [op |-> "subscribe", val |-> id]
    /\ UNCHANGED <<navVars, lockVars, m_requestHandlers, dispatchVars>>

\* line 261: no handler, SubscriptionOptions{} (priority 0, receiveOwnEvents false)
DefaultOptions == [priority |-> 0, receiveOwnEvents |-> FALSE]

subscribeSimple(pattern, subscriberId) ==
    subscribe(pattern, subscriberId, FALSE, DefaultOptions)

\* variant of IndexPrune that keeps an emptied list in the index
IndexPruneMutant(index, subscriberId, id) ==
    MapPut(index, subscriberId, RemoveAll(index[subscriberId], id))

\* lines 157-161: removeAll(subscriptionId), then drop an empty list
IndexPrune(index, subscriberId, id) ==
    LET with == IF subscriberId \in DOMAIN index THEN index[subscriberId] ELSE <<>>
        rest == RemoveAll(with, id)
    IN IF rest = <<>> THEN MapRemove(index, {subscriberId})
       ELSE MapPut(index, subscriberId, rest)

\* variant of EraseEntry that erases every entry of the same subscriber
EraseEntryMutant(table, subscriptionId) ==
    MapRemove(table, {x \in DOMAIN table :
                        table[x].subscriberId = table[subscriptionId].subscriberId})

\* line 156: m_subscriptions.erase(it)
EraseEntry(table, subscriptionId) == MapRemove(table, {subscriptionId})

unsubscribe(subscriptionId) ==
    /\ CanCall
    /\ IF subscriptionId \notin DOMAIN m_subscriptions
       THEN /\ ret' = [op |-> "unsubscribe", val |-> FALSE]
            /\ UNCHANGED <<m_subscriptions, m_subscriberIndex>>
       ELSE LET subscriberId == m_subscriptions[subscriptionId].subscriberId
            IN /\ m_subscriptions' = EraseEntry(m_subscriptions, subscriptionId)
               /\ m_subscriberIndex' =
                      IndexPrune(m_subscriberIndex, subscriberId, subscriptionId)
               /\ ret' = [op |-> "unsubscribe", val |-> TRUE]
    /\ UNCHANGED <<navVars, lockVars, created, m_requestHandlers, dispatchVars>>

\* variant of TakeIds that misses the first id of the list
TakeIdsMutant(index, subscriberId) ==
    IF subscriberId \in DOMAIN index THEN Tail(index[subscriberId]) ELSE <<>>

\* line 179: the list m_subscriberIndex.take(subscriberId) returns
TakeIds(index, subscriberId) ==
    IF subscriberId \in DOMAIN index THEN index[subscriberId] ELSE <<>>

\* variant of RemoveIds whose loop stops after the first id
RemoveIdsMutant(table, ids) ==
    MapRemove(table, IF ids = <<>> THEN {} ELSE {Head(ids)})

\* lines 181-183: m_subscriptions.remove(id) for every id taken
RemoveIds(table, ids) == MapRemove(table, SeqRange(ids))

unsubscribeAll(subscriberId) ==
    /\ CanCall
    /\ LET ids == TakeIds(m_subscriberIndex, subscriberId)
       IN /\ m_subscriberIndex' = MapRemove(m_subscriberIndex, {subscriberId})
          /\ m_subscriptions' = RemoveIds(m_subscriptions, ids)
          /\ ret' = [op |-> "unsubscribeAll", val |-> "void"]
    /\ UNCHANGED <<navVars, lockVars, created, m_requestHandlers, dispatchVars>>

subscriptionsFor(subscriberId) ==
    IF subscriberId \in DOMAIN m_subscriberIndex
    THEN m_subscriberIndex[subscriberId] ELSE <<>>

totalSubscribers == Cardinality(DOMAIN m_subscriptions)

(***************************************************************************)
(* Dispatcher                                                              *)
(***************************************************************************)
SetFrame(t, f) == frame' = [frame EXCEPT ![t] = f]

\* publish / publishSync, lines 26-30 and 39-43: the Event is built, with the
\* clock read, before deliverEvent takes the lock; the clock has advanced by
\* one since it was last read
PublishBegin(t, op, topic, data, senderId) ==
    /\ ~crashed
    /\ frame[t].pc = "idle"
    /\ LET now == clock + 1
       IN
        /\ clock' = now
        /\ SetFrame(t, [IdleFrame EXCEPT
                          !.pc = "deliver", !.op = op,
                          !.event = [topic |-> topic, senderId |-> senderId,
                                     data |-> data, timestamp |-> now]])
    /\ UNCHANGED <<navVars, lockVars, tableVars, m_topicStats, m_requestHandlers, queue, executed,
                   ret, crashed>>

publish(t, topic, data, senderId) == PublishBegin(t, "publish", topic, data, senderId)

publishSync(t, topic, data, senderId) ==
    PublishBegin(t, "publishSync", topic, data, senderId)

\* the ids of a set in ascending order
RECURSIVE SortedIds(_)
SortedIds(S) ==
    IF S = {} THEN <<>>
    ELSE LET m == CHOOSE x \in S : \A y \in S : x <= y
         IN <<m>> \o SortedIds(S \ {m})

\* variant of findMatchingSubscriptions that does not test the regex
findMatchingSubscriptionsMutant(topic) == SortedIds(DOMAIN m_subscriptions)

\* lines 382-394: pointers to the entries whose regex matches, in scan order
findMatchingSubscriptions(topic) ==
    SortedIds({id \in DOMAIN m_subscriptions :
                 matchesTopic(topic, m_subscriptions[id].pattern)})

\* the TopicData of a topic in a stats map, default-constructed when absent
\* (line 56 and lines 238-242)
StatsIn(stats, topic) ==
    IF topic \in DOMAIN stats THEN stats[topic]
    ELSE [eventCount |-> 0, lastEventTime |-> 0]

StatsOf(topic) == StatsIn(m_topicStats, topic)

\* variant of UpdateStats that counts only topics that already have an entry
UpdateStatsMutant(topic, timestamp) ==
    IF topic \in DOMAIN m_topicStats
    THEN MapPut(m_topicStats, topic,
                [eventCount |-> StatsOf(topic).eventCount + 1,
                 lastEventTime |-> timestamp])
    ELSE m_topicStats

\* lines 56-59
UpdateStats(topic, timestamp) ==
    MapPut(m_topicStats, topic,
           [eventCount |-> StatsOf(topic).eventCount + 1,
            lastEventTime |-> timestamp])

\* lines 52-67: the critical section of deliverEvent and the early return
DeliverLock(t) ==
    /\ ~crashed
    /\ frame[t].pc = "deliver"
    /\ LET f == frame[t]
           matches == findMatchingSubscriptions(f.event.topic)
       IN /\ m_topicStats' = UpdateStats(f.event.topic, f.event.timestamp)
          /\ IF matches = <<>>
             THEN SetFrame(t, [f EXCEPT !.pc = "idle", !.result = "returned",
                                        !.notified = 0])
             ELSE SetFrame(t, [f EXCEPT !.pc = "sort", !.matches = matches])
    /\ UNCHANGED <<navVars, lockVars, tableVars, m_requestHandlers, clock, queue,
                   executed, ret, crashed>>

Live(id) == id \in DOMAIN m_subscriptions

Orderings(s) ==
    {p \in [1..Len(s) -> SeqRange(s)] : \A x \in SeqRange(s) : \E i \in 1..Len(s) : p[i] = x}

\* what a read through a Subscription pointer can return: the entry when it
\* is still in the table, any bytes when the entry has been erased
ReadsThrough(id) ==
    IF Live(id) THEN {m_subscriptions[id]}
    ELSE [id : {id}, pattern : Patterns, subscriberId : Subscribers,
          handler : {NoHandler} \cup IssuedIds,
          options : [priority : Priorities, receiveOwnEvents : BOOLEAN]]

\* variant of SortOutcomes that leaves the scan order
SortOutcomesMutant(matches) == {matches}

\* lines 70-73: std::sort with the comparator a->priority > b->priority.  The
\* scan that fills matches follows the container's key order (the random
\* UUIDs, not the order of the subscribe calls), and std::sort does not keep
\* the relative order of elements that compare equal: the outcome is any
\* order that is descending in the priorities the comparator read
SortOutcomes(matches) ==
    {p \in Orderings(matches) :
        \E seen \in [SeqRange(matches) -> Priorities] :
            /\ \A id \in SeqRange(matches) :
                  \E sub \in ReadsThrough(id) : seen[id] = sub.options.priority
            /\ \A i, j \in 1..Len(p) : i < j => seen[p[i]] >= seen[p[j]]}

DeliverSort(t) ==
    /\ ~crashed
    /\ frame[t].pc = "sort"
    /\ LET f == frame[t]
           stale == \E id \in SeqRange(f.matches) : ~Live(id)
       IN \E sorted \in SortOutcomes(f.matches) :
             SetFrame(t, [f EXCEPT !.pc = "loop", !.matches = sorted, !.pos = 1,
                                   !.dangling = stale])
    /\ UNCHANGED <<navVars, lockVars, tableVars, m_topicStats, m_requestHandlers, clock,
                   queue, executed, ret, crashed>>

\* variant of SkipsOwnEvent that ignores receiveOwnEvents
SkipsOwnEventMutant(sub, event) == sub.subscriberId = event.senderId

\* line 79
SkipsOwnEvent(sub, event) ==
    ~sub.options.receiveOwnEvents /\ sub.subscriberId = event.senderId

\* variant of Synchronous in which publish delivers inline as well
SynchronousMutant(op) == op \in {"publish", "publishSync"}

\* the synchronous argument of deliverEvent: false from publish (line 32), true
\* from publishSync (line 45)
Synchronous(op) == op = "publishSync"

\* lines 77-98, one iteration of the loop up to the handler call
DeliverStep(t) ==
    /\ ~crashed
    /\ frame[t].pc = "loop"
    /\ frame[t].pos <= Len(frame[t].matches)
    /\ LET f == frame[t]
           ptr == f.matches[f.pos]
           g == [f EXCEPT !.dangling = f.dangling \/ ~Live(ptr)]
       IN \E sub \in ReadsThrough(ptr) :
            IF SkipsOwnEvent(sub, f.event)
            THEN /\ SetFrame(t, [g EXCEPT !.pos = f.pos + 1])
                 /\ UNCHANGED queue
            ELSE IF sub.handler = NoHandler
            THEN /\ SetFrame(t, [g EXCEPT !.pos = f.pos + 1,
                                          !.notified = f.notified + 1])
                 /\ UNCHANGED queue
            ELSE IF Synchronous(f.op)
            THEN /\ SetFrame(t, [g EXCEPT !.pc = "handler",
                                          !.ran = Append(f.ran, [sub |-> ptr,
                                                                 handler |-> sub.handler])])
                 /\ UNCHANGED queue
            ELSE /\ SetFrame(t, [g EXCEPT !.pos = f.pos + 1,
                                          !.notified = f.notified + 1,
                                          !.ran = Append(f.ran, [sub |-> ptr,
                                                                 handler |-> sub.handler])])
                 /\ queue' = Append(queue, [kind |-> "handler",
                                            handler |-> sub.handler,
                                            event |-> f.event])
    /\ UNCHANGED <<navVars, lockVars, tableVars, m_topicStats, m_requestHandlers, clock,
                   executed, ret, crashed>>

\* a read or a call through a pointer to an erased entry can also end the process
DeliverFault(t) ==
    /\ ~crashed
    /\ \/ frame[t].pc = "sort" /\ \E id \in SeqRange(frame[t].matches) : ~Live(id)
       \/ /\ frame[t].pc = "loop" /\ frame[t].pos <= Len(frame[t].matches)
          /\ ~Live(frame[t].matches[frame[t].pos])
    /\ crashed' = TRUE
    /\ SetFrame(t, [frame[t] EXCEPT !.dangling = TRUE])
    /\ UNCHANGED <<navVars, lockVars, tableVars, m_topicStats, m_requestHandlers, clock,
                   queue, executed, ret>>

\* line 86 returns normally; line 97
HandlerReturn(t) ==
    /\ ~crashed
    /\ frame[t].pc = "handler"
    /\ Synchronous(frame[t].op)
    /\ SetFrame(t, [frame[t] EXCEPT !.pc = "loop", !.pos = frame[t].pos + 1,
                                    !.notified = frame[t].notified + 1])
    /\ UNCHANGED <<navVars, lockVars, tableVars, m_topicStats, m_requestHandlers, clock,
                   queue, executed, ret, crashed>>

\* line 86 throws: nothing in deliverEvent or publishSync catches, the
\* exception leaves the call
HandlerThrow(t) ==
    /\ ~crashed
    /\ frame[t].pc = "handler"
    /\ Synchronous(frame[t].op)
    /\ SetFrame(t, [frame[t] EXCEPT !.pc = "idle", !.result = "threw"])
    /\ UNCHANGED <<navVars, lockVars, tableVars, m_topicStats, m_requestHandlers, clock,
                   queue, executed, ret, crashed>>

Broadcast(event) ==
    [topic |-> event.topic, data |-> event.data, senderId |-> event.senderId]

\* lines 100-109
DeliverEmit(t) ==
    /\ ~crashed
    /\ frame[t].pc = "loop"
    /\ frame[t].pos > Len(frame[t].matches)
    /\ LET f == frame[t]
       IN IF Synchronous(f.op)
          THEN /\ SetFrame(t, [f EXCEPT !.pc = "idle", !.result = "returned",
                                        !.emitted = Append(f.emitted, Broadcast(f.event))])
               /\ UNCHANGED queue
          ELSE /\ SetFrame(t, [f EXCEPT !.pc = "idle", !.result = "returned"])
               /\ queue' = Append(queue, [kind |-> "broadcast",
                                          handler |-> NoHandler,
                                          event |-> f.event])
    /\ UNCHANGED <<navVars, lockVars, tableVars, m_topicStats, m_requestHandlers, clock,
                   executed, ret, crashed>>

\* variant of RunQueued that drops a handler item whose subscription has
\* been removed since it was posted
RunQueuedMutant ==
    /\ ~crashed
    /\ queue # <<>>
    /\ executed' = IF Head(queue).kind = "handler" /\ ~Live(Head(queue).handler)
                   THEN executed ELSE Append(executed, Head(queue))
    /\ queue' = Tail(queue)
    /\ UNCHANGED <<navVars, lockVars, tableVars, m_topicStats, m_requestHandlers, clock,
                   frame, ret, crashed>>

\* the event loop of the bus object's thread runs the oldest queued item
\* (lines 91-93 and 104-106)
RunQueued ==
    /\ ~crashed
    /\ queue # <<>>
    /\ executed' = Append(executed, Head(queue))
    /\ queue' = Tail(queue)
    /\ UNCHANGED <<navVars, lockVars, tableVars, m_topicStats, m_requestHandlers, clock,
                   frame, ret, crashed>>

topicStats(topic) ==
    [topic |-> topic,
     subscriberCount |-> Cardinality({id \in DOMAIN m_subscriptions :
                                        matchesTopic(topic, m_subscriptions[id].pattern)}),
     eventCount |-> StatsOf(topic).eventCount,
     lastEventTime |-> StatsOf(topic).lastEventTime]

(***************************************************************************)
(* Request/response registry                                               *)
(***************************************************************************)
HandlerIds == {"h1", "h2"}
\* the callbacks passed to registerHandler
RequestHandlers == {"f", "g"}

\* variant of InsertHandler that overwrites an existing entry
InsertHandlerMutant(topic, entry) == MapPut(m_requestHandlers, topic, entry)

\* lines 283-292: insert only when the topic has no entry
InsertHandler(topic, entry) ==
    IF topic \in DOMAIN m_requestHandlers THEN m_requestHandlers
    ELSE MapPut(m_requestHandlers, topic, entry)

registerHandler(topic, handlerId, handler) ==
    /\ CanCall
    /\ m_requestHandlers' =
          InsertHandler(topic, [topic |-> topic, handlerId |-> handlerId,
                                handler |-> handler])
    /\ ret' = [op |-> "registerHandler", val |-> topic \notin DOMAIN m_requestHandlers]
    /\ UNCHANGED <<navVars, lockVars, tableVars, dispatchVars>>

\* variant of unregisterHandler that reports the removal but leaves the entry
unregisterHandlerMutant(topic) ==
    /\ CanCall
    /\ m_requestHandlers' = m_requestHandlers
    /\ ret' = [op |-> "unregisterHandler", val |-> topic \in DOMAIN m_requestHandlers]
    /\ UNCHANGED <<navVars, lockVars, tableVars, dispatchVars>>

unregisterHandler(topic) ==
    /\ CanCall
    /\ m_requestHandlers' = MapRemove(m_requestHandlers, {topic})
    /\ ret' = [op |-> "unregisterHandler", val |-> topic \in DOMAIN m_requestHandlers]
    /\ UNCHANGED <<navVars, lockVars, tableVars, dispatchVars>>

\* variant of ToRemove that collects every topic
ToRemoveMutant(handlerId) == DOMAIN m_requestHandlers

\* lines 312-317: the topics whose entry has the given handlerId
ToRemove(handlerId) ==
    {topic \in DOMAIN m_requestHandlers :
        m_requestHandlers[topic].handlerId = handlerId}

unregisterAllHandlers(handlerId) ==
    /\ CanCall
    /\ m_requestHandlers' = MapRemove(m_requestHandlers, ToRemove(handlerId))
    /\ ret' = [op |-> "unregisterAllHandlers", val |-> "void"]
    /\ UNCHANGED <<navVars, lockVars, tableVars, dispatchVars>>

hasHandler(topic) == topic \in DOMAIN m_requestHandlers

\* variant of FindHandler that falls back to an entry of another topic
FindHandlerMutant(topic) ==
    IF topic \in DOMAIN m_requestHandlers THEN {m_requestHandlers[topic]}
    ELSE {m_requestHandlers[x] : x \in DOMAIN m_requestHandlers}

\* line 339: m_requestHandlers.find(topic), the entry found or none
FindHandler(topic) ==
    IF topic \in DOMAIN m_requestHandlers THEN {m_requestHandlers[topic]} ELSE {}

\* variant of request that counts the request in the topic stats
requestMutant(t, topic, data, senderId) ==
    /\ ~crashed
    /\ frame[t].pc = "idle"
    /\ LET now == clock + 1
           f == [IdleFrame EXCEPT !.op = "request",
                                  !.event = [topic |-> topic, senderId |-> senderId,
                                             data |-> data, timestamp |-> now]]
           it == FindHandler(topic)
       IN IF it = {}
          THEN /\ SetFrame(t, [f EXCEPT !.result = "novalue",
                                        !.event = [f.event EXCEPT !.timestamp = 0]])
               /\ UNCHANGED clock
          ELSE /\ \E entry \in it :
                    SetFrame(t, [f EXCEPT !.pc = "responder",
                                         !.handler = entry.handler])
               /\ clock' = now
    /\ m_topicStats' = UpdateStats(topic, clock + 1)
    /\ UNCHANGED <<navVars, lockVars, tableVars, m_requestHandlers, queue, executed,
                   ret, crashed>>

\* lines 336-351: the lookup under the lock, the copy of the handler, the Event
request(t, topic, data, senderId) ==
    /\ ~crashed
    /\ frame[t].pc = "idle"
    /\ LET now == clock + 1
           f == [IdleFrame EXCEPT !.op = "request",
                                  !.event = [topic |-> topic, senderId |-> senderId,
                                             data |-> data, timestamp |-> now]]
           it == FindHandler(topic)
       IN IF it = {}
          THEN /\ SetFrame(t, [f EXCEPT !.result = "novalue",
                                        !.event = [f.event EXCEPT !.timestamp = 0]])
               /\ UNCHANGED clock
          ELSE /\ \E entry \in it :
                    SetFrame(t, [f EXCEPT !.pc = "responder",
                                         !.handler = entry.handler])
               /\ clock' = now
    /\ UNCHANGED <<navVars, lockVars, tableVars, m_topicStats, m_requestHandlers, queue, executed,
                   ret, crashed>>

\* line 354: the handler returns a value
RequestReturn(t) ==
    /\ ~crashed
    /\ frame[t].pc = "responder"
    /\ SetFrame(t, [frame[t] EXCEPT !.pc = "idle", !.result = "value"])
    /\ UNCHANGED <<navVars, lockVars, tableVars, m_topicStats, m_requestHandlers, clock, queue,
                   executed, ret, crashed>>

\* lines 355-357: the handler throws a std::exception
RequestCatch(t) ==
    /\ ~crashed
    /\ frame[t].pc = "responder"
    /\ SetFrame(t, [frame[t] EXCEPT !.pc = "idle", !.result = "novalue"])
    /\ UNCHANGED <<navVars, lockVars, tableVars, m_topicStats, m_requestHandlers, clock, queue,
                   executed, ret, crashed>>

\* line 355 catches std::exception only: anything else a handler throws
\* leaves request
RequestThrow(t) ==
    /\ ~crashed
    /\ frame[t].pc = "responder"
    /\ SetFrame(t, [frame[t] EXCEPT !.pc = "idle", !.result = "threw"])
    /\ UNCHANGED <<navVars, lockVars, tableVars, m_topicStats, m_requestHandlers, clock, queue,
                   executed, ret, crashed>>

\* the arguments matchesTopic is called with: topics may hold any character,
\* a newline included
TopicChars == {"a", "/", "\n"}
PatternChars == {"a", "/", "*"}
Strings(chars, n) == UNION {[1..k -> chars] : k \in 0..n}

\* a call of the public matchesTopic (lines 253-257) that is about to be
\* made with the given arguments
MatchesTopicArgs(topic, pattern) ==
    [op |-> "matchesTopicArgs",
     val |-> [topic |-> topic, pattern |-> pattern, result |-> FALSE]]

\* lines 253-257: the call compiles the pattern and matches the topic
MatchesTopicCall ==
    /\ CanCall
    /\ ret.op = "matchesTopicArgs"
    /\ ret' = [op |-> "matchesTopic",
               val |-> [ret.val EXCEPT
                          !.result = matchesTopic(ret.val.topic, ret.val.pattern)]]
    /\ UNCHANGED <<navVars, lockVars, tableVars, m_requestHandlers, dispatchVars>>

(***************************************************************************)
(* NavigationService (src/src/navigation_service.cpp)                      *)
(***************************************************************************)
Routes == {"", "home", "orders"}
Components == {"Home.qml", "Orders.qml"}

\* lines 15-20
registerRoute(route, qmlComponent) ==
    /\ m_routes' = Append(m_routes, [pattern |-> route, component |-> qmlComponent])
    /\ ret' = [op |-> "registerRoute", val |-> "void"]
    /\ UNCHANGED <<m_currentRoute, navigationChanged, lockVars, busVarsNoRet>>

\* lines 22-34: the component of the first entry of the route, "" without one
getPageUrl(route) ==
    LET hits == {i \in 1..Len(m_routes) : m_routes[i].pattern = route}
    IN IF hits = {} THEN ""
       ELSE m_routes[CHOOSE i \in hits : \A j \in hits : i <= j].component

\* lines 36-39
currentRoute == m_currentRoute

\* variant of RouteDiffers that takes every call for a change
RouteDiffersMutant(current, route) == TRUE

\* line 43: m_currentRoute != route
RouteDiffers(current, route) == current # route

\* lines 41-47; ret keeps the argument and whether the branch was taken
setCurrentRoute(route) ==
    /\ IF RouteDiffers(m_currentRoute, route)
       THEN /\ m_currentRoute' = route
            /\ navigationChanged' =
                  Append(navigationChanged, [route |-> route, params |-> {}])
       ELSE UNCHANGED <<m_currentRoute, navigationChanged>>
    /\ ret' = [op |-> "setCurrentRoute",
               val |-> [route |-> route,
                        changed |-> RouteDiffers(m_currentRoute, route)]]
    /\ UNCHANGED <<m_routes, lockVars, busVarsNoRet>>

(***************************************************************************)
(* Lock discipline: where each bus call takes and releases m_mutex and     *)
(* where it runs user code (a subscription or request handler, the slots   *)
(* directly connected to an emitted signal)                                *)
(***************************************************************************)
LockOps == {"publish", "publishSync", "subscribe", "unsubscribe",
            "unsubscribeAll", "request", "registerHandler", "topicStats"}

\* variant of Steps in which publishSync and request run the handler inside
\* the scope of the locker
StepsMutant(op) ==
    CASE op \in {"publishSync", "request"} -> <<"lock", "callback", "unlock", "return">>
      [] op = "publish" -> <<"lock", "unlock", "post", "post", "return">>
      [] op \in {"subscribe", "unsubscribe", "unsubscribeAll"} ->
            <<"lock", "unlock", "callback", "return">>
      [] op = "queued" -> <<"callback", "return">>
      [] OTHER -> <<"lock", "unlock", "return">>

\* variant of Steps in which subscribe, unsubscribe and unsubscribeAll emit
\* their signals inside the scope of the locker
StepsEmitMutant(op) ==
    CASE op = "publishSync" -> <<"lock", "unlock", "callback", "callback", "return">>
      [] op = "publish" -> <<"lock", "unlock", "post", "post", "return">>
      [] op \in {"subscribe", "unsubscribe", "unsubscribeAll"} ->
            <<"lock", "callback", "unlock", "return">>
      [] op = "request" -> <<"lock", "unlock", "callback", "return">>
      [] op = "queued" -> <<"callback", "return">>
      [] OTHER -> <<"lock", "unlock", "return">>

\* the steps of a call, in order.  "lock" .. "unlock" is the scope of its
\* QMutexLocker, "callback" a point where it runs user code, "post" a
\* QMetaObject::invokeMethod(..., Qt::QueuedConnection).
\*   publishSync: lines 52-63, the handlers of line 86, the emit of line 102
\*   publish: lines 52-63, the posts of lines 91 and 104
\*   subscribe / unsubscribe / unsubscribeAll: lines 126-130, 147-162,
\*     177-184, then the emits of lines 135-137, 166-168, 186-194
\*   request: lines 337-345, the handler of line 354
\*   queued: the functor the event loop runs (lines 91-93, 104-106)
\*   registerHandler, topicStats and the other calls: one locker scope
Steps(op) ==
    CASE op = "publishSync" -> <<"lock", "unlock", "callback", "callback", "return">>
      [] op = "publish" -> <<"lock", "unlock", "post", "post", "return">>
      [] op \in {"subscribe", "unsubscribe", "unsubscribeAll"} ->
            <<"lock", "unlock", "callback", "return">>
      [] op = "request" -> <<"lock", "unlock", "callback", "return">>
      [] op = "queued" -> <<"callback", "return">>
      [] OTHER -> <<"lock", "unlock", "return">>

busVars == <<m_subscriptions, m_subscriberIndex, m_topicStats, m_requestHandlers,
             created, clock, frame, ret, crashed>>

Depth(t) == Len(calls[t].stack)
Top(t) == calls[t].stack[Depth(t)]
\* the step the innermost call of thread t is at, "none" outside any call
AtStep(t) == IF Depth(t) = 0 THEN "none" ELSE Steps(Top(t).op)[Top(t).pc]

Push(t, op) ==
    calls' = [calls EXCEPT ![t].stack = Append(@, [op |-> op, pc |-> 1])]
Advance(t) ==
    calls' = [calls EXCEPT ![t].stack[Depth(t)].pc = @ + 1]

\* a thread that is in no call, or that is running user code a call has
\* invoked, calls the bus
Call(t, op) ==
    /\ AtStep(t) \in {"none", "callback"}
    /\ Depth(t) < MaxDepth
    /\ calls[t].made < MaxCalls
    /\ calls' = [calls EXCEPT ![t].stack = Append(@, [op |-> op, pc |-> 1]),
                              ![t].made = @ + 1]
    /\ UNCHANGED <<navVars, busVars, m_mutex, queue, executed>>

\* QMutexLocker's constructor: blocks until the mutex is free
Lock(t) ==
    /\ AtStep(t) = "lock"
    /\ m_mutex = 0
    /\ m_mutex' = t
    /\ Advance(t)
    /\ UNCHANGED <<navVars, busVars, queue, executed>>

\* QMutexLocker's destructor
Unlock(t) ==
    /\ AtStep(t) = "unlock"
    /\ m_mutex = t
    /\ m_mutex' = 0
    /\ Advance(t)
    /\ UNCHANGED <<navVars, busVars, queue, executed>>

\* the user code returns to the bus call that invoked it
CallbackReturn(t) ==
    /\ AtStep(t) = "callback"
    /\ Advance(t)
    /\ UNCHANGED <<navVars, busVars, m_mutex, queue, executed>>

Post(t) ==
    /\ AtStep(t) = "post"
    /\ queue' = Append(queue, [kind |-> "posted", handler |-> NoHandler,
                               event |-> NoEvent])
    /\ Advance(t)
    /\ UNCHANGED <<navVars, busVars, m_mutex, executed>>

Return(t) ==
    /\ AtStep(t) = "return"
    /\ calls' = [calls EXCEPT ![t].stack = SubSeq(@, 1, Depth(t) - 1)]
    /\ UNCHANGED <<navVars, busVars, m_mutex, queue, executed>>

\* the event loop of the bus object's thread takes the oldest posted functor
RunPosted(t) ==
    /\ Depth(t) = 0
    /\ queue # <<>>
    /\ queue' = Tail(queue)
    /\ executed' = Append(executed, Head(queue))
    /\ Push(t, "queued")
    /\ UNCHANGED <<navVars, busVars, m_mutex>>

(***************************************************************************)
(* Specification of the subscription table and the dispatcher              *)
(***************************************************************************)
OptionsSet == [priority : Priorities, receiveOwnEvents : BOOLEAN]

Next ==
    \/ \E p \in Patterns, s \in Subscribers, o \in OptionsSet :
          subscribe(p, s, TRUE, o)
    \/ \E p \in Patterns, s \in Subscribers : subscribeSimple(p, s)
    \/ \E id \in Ids : unsubscribe(id)
    \/ \E s \in Subscribers : unsubscribeAll(s)
    \/ /\ clock < MaxPublish
       /\ \E t \in Publishers, topic \in Topics, d \in DataVals, s \in Senders :
             publish(t, topic, d, s)
    \/ /\ clock < MaxPublish
       /\ \E t \in Publishers, topic \in Topics, d \in DataVals, s \in Senders :
             publishSync(t, topic, d, s)
    \/ \E t \in Threads : DeliverLock(t)
    \/ \E t \in Threads : DeliverSort(t)
    \/ \E t \in Threads : DeliverStep(t)
    \/ \E t \in Threads : DeliverFault(t)
    \/ \E t \in Threads : HandlerReturn(t)
    \/ \E t \in Threads : HandlerThrow(t)
    \/ \E t \in Threads : DeliverEmit(t)
    \/ RunQueued

Spec == Init /\ [][Next]_vars

\* the same with an event loop that keeps running: a posted item that can be
\* run is eventually run
SpecAsync == Init /\ [][Next]_vars /\ WF_vars(RunQueued)

(***************************************************************************)
(* Specification of the subscription table alone                           *)
(***************************************************************************)
NextTable ==
    \/ \E p \in Patterns, s \in Subscribers, h \in BOOLEAN, o \in OptionsSet :
          subscribe(p, s, h, o)
    \/ \E p \in Patterns, s \in Subscribers : subscribeSimple(p, s)
    \/ \E id \in Ids : unsubscribe(id)
    \/ \E s \in Subscribers : unsubscribeAll(s)

SpecTable == Init /\ [][NextTable]_vars

(***************************************************************************)
(* Specification of the request/response registry                          *)
(***************************************************************************)
NextRequest ==
    \/ \E topic \in Topics, id \in HandlerIds, h \in RequestHandlers :
          registerHandler(topic, id, h)
    \/ \E topic \in Topics : unregisterHandler(topic)
    \/ \E id \in HandlerIds : unregisterAllHandlers(id)
    \/ /\ clock < MaxRequest
       /\ \E t \in Threads, topic \in Topics, d \in DataVals, s \in Senders :
             request(t, topic, d, s)
    \/ \E t \in Threads : RequestReturn(t)
    \/ \E t \in Threads : RequestCatch(t)
    \/ \E t \in Threads : RequestThrow(t)

SpecRequest == Init /\ [][NextRequest]_vars

(***************************************************************************)
(* Specification of the lock discipline.  A step that is possible is       *)
(* eventually taken: the mutex is handed to a waiting thread, user code    *)
(* returns, the event loop keeps running.                                  *)
(***************************************************************************)
NextLock ==
    \/ \E t \in Threads, op \in LockOps : Call(t, op)
    \/ \E t \in Threads : Lock(t)
    \/ \E t \in Threads : Unlock(t)
    \/ \E t \in Threads : CallbackReturn(t)
    \/ \E t \in Threads : Post(t)
    \/ \E t \in Threads : Return(t)
    \/ \E t \in Threads : RunPosted(t)

SpecLock ==
    /\ Init
    /\ [][NextLock]_vars
    /\ \A t \in Threads :
          /\ WF_vars(Lock(t))
          /\ WF_vars(Unlock(t))
          /\ WF_vars(CallbackReturn(t))
          /\ WF_vars(Post(t))
          /\ WF_vars(Return(t))

(***************************************************************************)
(* Specification of the topic statistics: both threads publish, to two     *)
(* topics that the same pattern matches, while subscriptions without a     *)
(* handler come and go                                                     *)
(***************************************************************************)
StatsTopics == {<<"a", "/", "b">>, <<"a", "/", "c">>}

NextStats ==
    \/ \E p \in Patterns, s \in Senders : subscribeSimple(p, s)
    \/ \E s \in Senders : unsubscribeAll(s)
    \/ /\ clock < MaxStatsPublish
       /\ \E t \in Threads, topic \in StatsTopics, d \in DataVals :
             publish(t, topic, d, "s2")
    \/ /\ clock < MaxStatsPublish
       /\ \E t \in Threads, topic \in StatsTopics, d \in DataVals :
             publishSync(t, topic, d, "s2")
    \/ \E t \in Threads : DeliverLock(t)
    \/ \E t \in Threads : DeliverSort(t)
    \/ \E t \in Threads : DeliverStep(t)
    \/ \E t \in Threads : DeliverFault(t)
    \/ \E t \in Threads : DeliverEmit(t)
    \/ RunQueued

SpecStats == Init /\ [][NextStats]_vars

(***************************************************************************)
(* Specification of the two channels together: a subscription and a        *)
(* request handler on the same topic, one thread publishing to it and the  *)
(* other requesting on it                                                  *)
(***************************************************************************)
ChannelTopic == <<"a", "/", "b">>

NextChannels ==
    \/ \E p \in Patterns : subscribe(p, "s2", TRUE, DefaultOptions)
    \/ unsubscribeAll("s2")
    \/ registerHandler(ChannelTopic, "h1", "f")
    \/ unregisterHandler(ChannelTopic)
    \/ /\ clock < MaxChannelCalls
       /\ \E t \in Publishers, d \in DataVals, s \in Senders :
             publish(t, ChannelTopic, d, s)
    \/ /\ clock < MaxChannelCalls
       /\ \E t \in Publishers, d \in DataVals, s \in Senders :
             publishSync(t, ChannelTopic, d, s)
    \/ /\ clock < MaxChannelCalls
       /\ \E t \in Threads \ Publishers, d \in DataVals, s \in Senders :
             request(t, ChannelTopic, d, s)
    \/ \E t \in Threads : DeliverLock(t)
    \/ \E t \in Threads : DeliverSort(t)
    \/ \E t \in Threads : DeliverStep(t)
    \/ \E t \in Threads : DeliverFault(t)
    \/ \E t \in Threads : HandlerReturn(t)
    \/ \E t \in Threads : HandlerThrow(t)
    \/ \E t \in Threads : DeliverEmit(t)
    \/ RunQueued
    \/ \E t \in Threads : RequestReturn(t)
    \/ \E t \in Threads : RequestCatch(t)
    \/ \E t \in Threads : RequestThrow(t)

SpecChannels == Init /\ [][NextChannels]_vars

(***************************************************************************)
(* Specification of the navigation service                                 *)
(***************************************************************************)
NextNav ==
    \/ /\ Len(m_routes) < MaxRoutes
       /\ \E route \in Routes, c \in Components : registerRoute(route, c)
    \/ /\ Len(navigationChanged) < MaxNav
       /\ \E route \in Routes : setCurrentRoute(route)

SpecNav == Init /\ [][NextNav]_vars

(***************************************************************************)
(* Specification of the topic matcher                                      *)
(***************************************************************************)
InitMatch ==
    /\ InitBus
    /\ \E topic \in Strings(TopicChars, MaxTopicLen),
          pattern \in Strings(PatternChars, MaxPatternLen) :
            ret = MatchesTopicArgs(topic, pattern)

NextMatch == MatchesTopicCall

SpecMatch == InitMatch /\ [][NextMatch]_vars

(***************************************************************************)
(* Properties                                                              *)
(***************************************************************************)
OwnedBy(s) == {id \in DOMAIN m_subscriptions : m_subscriptions[id].subscriberId = s}

\* C1: the subscriber index and the subscription table agree: every id listed
\* under a subscriber is a key of the table whose entry has that subscriberId,
\* every id of the table occurs exactly once in the list of its subscriberId,
\* and no subscriber is in the index with an empty list.
C1_IndexAgreesWithTable ==
    /\ \A s \in DOMAIN m_subscriberIndex :
          /\ m_subscriberIndex[s] # <<>>
          /\ \A i \in 1..Len(m_subscriberIndex[s]) :
                /\ m_subscriberIndex[s][i] \in DOMAIN m_subscriptions
                /\ m_subscriptions[m_subscriberIndex[s][i]].subscriberId = s
    /\ \A id \in DOMAIN m_subscriptions :
          LET s == m_subscriptions[id].subscriberId
          IN /\ s \in DOMAIN m_subscriberIndex
             /\ Cardinality({i \in 1..Len(m_subscriberIndex[s]) :
                               m_subscriberIndex[s][i] = id}) = 1

\* C1 witness: a subscriber subscribed twice and one of the two subscriptions
\* was then removed by unsubscribe, which pruned its list to one id
C1_Witness ==
    /\ Len(created) = 2
    /\ created[1].subscriberId = created[2].subscriberId
    /\ ret = [op |-> "unsubscribe", val |-> TRUE]
    /\ Cardinality(DOMAIN m_subscriptions) = 1
    /\ \E s \in DOMAIN m_subscriberIndex : Len(m_subscriberIndex[s]) = 1

\* C9: when s owns exactly N subscriptions, unsubscribeAll(s) leaves
\* subscriptionsFor(s) empty, lowers totalSubscribers by exactly N and leaves
\* the subscriptions of every other subscriber as they were; with N = 0 the
\* table and the index do not change.
C9_UnsubscribeAllRemovesExactlyOwn ==
    [][\A s \in Subscribers :
          unsubscribeAll(s) =>
             LET N == Cardinality(OwnedBy(s))
             IN /\ subscriptionsFor(s)' = <<>>
                /\ totalSubscribers' = totalSubscribers - N
                /\ \A o \in Subscribers \ {s} :
                      /\ subscriptionsFor(o)' = subscriptionsFor(o)
                      /\ \A id \in OwnedBy(o) :
                            /\ id \in DOMAIN m_subscriptions'
                            /\ m_subscriptions'[id] = m_subscriptions[id]
                /\ (N = 0 => UNCHANGED <<m_subscriptions, m_subscriberIndex>>)]_vars

\* C9 witness: unsubscribeAll has just removed the subscriptions of the
\* subscriber of the first subscription while another subscriber's stays
C9_Witness ==
    /\ Len(created) = 2
    /\ created[1].subscriberId # created[2].subscriberId
    /\ ret.op = "unsubscribeAll"
    /\ DOMAIN m_subscriptions = {2}
    /\ subscriptionsFor(created[1].subscriberId) = <<>>
    /\ subscriptionsFor(created[2].subscriberId) = <<2>>

\* C10: registerHandler on a topic that already has a handler returns false
\* and leaves the request-handler map as it was, and a request on a topic
\* with an entry takes the handler of that entry, so the first handler
\* registered is the one a later request invokes.
C10_SecondRegisterRejected ==
    [][/\ \A topic \in Topics, id \in HandlerIds, h \in RequestHandlers :
             (registerHandler(topic, id, h) /\ hasHandler(topic)) =>
                /\ ret' = [op |-> "registerHandler", val |-> FALSE]
                /\ m_requestHandlers' = m_requestHandlers
       /\ \A t \in Threads, topic \in Topics, d \in DataVals, s \in Senders :
             (request(t, topic, d, s) /\ hasHandler(topic)) =>
                /\ frame'[t].pc = "responder"
                /\ frame'[t].handler = m_requestHandlers[topic].handler]_vars

\* C10 witness: a second registerHandler has just been rejected while the
\* entry holds handler f of h1, and a request on the topic is running f
C10_Witness ==
    /\ ret = [op |-> "registerHandler", val |-> FALSE]
    /\ \E t \in Threads :
          /\ frame[t].pc = "responder"
          /\ frame[t].event.topic \in DOMAIN m_requestHandlers
          /\ m_requestHandlers[frame[t].event.topic].handlerId = "h1"
          /\ m_requestHandlers[frame[t].event.topic].handler = "f"
          /\ frame[t].handler = "f"

\* the subscription a handler was passed with, as subscribe stored it
SubscriptionOf(h) == created[h]

InPublish(t) == frame[t].op \in {"publish", "publishSync"}
Ended(t) == frame[t].pc = "idle" /\ frame[t].result # "none"

\* C2: after the table lock is released, the delivery never reads a
\* subscription entry that has been removed from the subscription table.
C2_NeverReadsRemovedEntry ==
    \A t \in Threads : InPublish(t) => ~frame[t].dangling

BroadcastsOf(items, event) ==
    Cardinality({i \in 1..Len(items) :
                   items[i].kind = "broadcast" /\ items[i].event = event})

\* C3: every publish or publishSync call that has returned has led to exactly
\* one passive-listener broadcast with the call's topic, data and senderId:
\* emitted inline by publishSync, queued (or already run) for publish.
C3_EveryPublishIsBroadcast ==
    \A t \in Threads :
        (InPublish(t) /\ Ended(t) /\ frame[t].result = "returned") =>
            IF frame[t].op = "publishSync"
            THEN frame[t].emitted = <<Broadcast(frame[t].event)>>
            ELSE BroadcastsOf(executed \o queue, frame[t].event) = 1

\* C4: within one publishSync call the handlers run in priority-descending
\* order: a handler never runs before the handler of a subscription of
\* higher priority that the same call runs.
C4_HandlersRunByPriority ==
    \A t \in Threads :
        frame[t].op = "publishSync" =>
            \A i, j \in 1..Len(frame[t].ran) :
                i < j =>
                    SubscriptionOf(frame[t].ran[i].handler).options.priority
                    >= SubscriptionOf(frame[t].ran[j].handler).options.priority

\* C5: two matched subscriptions of equal priority are delivered in the order
\* in which they were subscribed.
C5_EqualPriorityInSubscribeOrder ==
    \A t \in Threads :
        InPublish(t) =>
            \A i, j \in 1..Len(frame[t].ran) :
                (/\ i < j
                 /\ SubscriptionOf(frame[t].ran[i].handler).options.priority
                    = SubscriptionOf(frame[t].ran[j].handler).options.priority)
                => frame[t].ran[i].handler < frame[t].ran[j].handler

\* C6: a publishSync call in which a handler was invoked, whether or not the
\* handler raised, goes through all its matches, emits the passive-listener
\* broadcast and returns its notifiedCount.
C6_ThrowingHandlerDoesNotAbort ==
    \A t \in Threads :
        (frame[t].op = "publishSync" /\ frame[t].pc = "idle" /\ frame[t].ran # <<>>) =>
            /\ frame[t].result = "returned"
            /\ frame[t].pos > Len(frame[t].matches)
            /\ frame[t].emitted = <<Broadcast(frame[t].event)>>

SelfExcluded(sub, event) ==
    sub.options.receiveOwnEvents = FALSE /\ sub.subscriberId = event.senderId

HandlersRun(t) == {frame[t].ran[i].handler : i \in 1..Len(frame[t].ran)}

\* C7: a matching subscription with receiveOwnEvents = false whose
\* subscriberId is the event's senderId never has its handler invoked or
\* scheduled for the event and is not counted; every other matching
\* subscription is delivered (its handler, when it has one, invoked or
\* scheduled) and counted in notifiedCount.
C7_SelfExclusion ==
    \A t \in Threads :
        InPublish(t) =>
            /\ \A h \in HandlersRun(t) :
                  ~SelfExcluded(SubscriptionOf(h), frame[t].event)
            /\ Ended(t) =>
                  LET due == {id \in SeqRange(frame[t].matches) :
                                ~SelfExcluded(SubscriptionOf(id), frame[t].event)}
                  IN /\ frame[t].result = "returned"
                     /\ frame[t].notified = Cardinality(due)
                     /\ HandlersRun(t) =
                           {id \in due : SubscriptionOf(id).handler # NoHandler}

NoLiveMatch(topic) ==
    \A id \in DOMAIN m_subscriptions :
        ~matchesTopic(topic, m_subscriptions[id].pattern)

\* C8: a publish or publishSync to a topic that no live subscription matches
\* returns notifiedCount 0, invokes and schedules no handler, and increases
\* topicStats(topic).eventCount by exactly 1.
C8_NoMatchCountsEvent ==
    [][\A t \in Threads :
          (DeliverLock(t) /\ NoLiveMatch(frame[t].event.topic)) =>
             /\ frame'[t].pc = "idle"
             /\ frame'[t].result = "returned"
             /\ frame'[t].notified = 0
             /\ frame'[t].ran = <<>>
             /\ queue' = queue
             /\ StatsIn(m_topicStats', frame[t].event.topic).eventCount
                   = topicStats(frame[t].event.topic).eventCount + 1]_vars

\* C8 witness: a publish to "d" has returned 0 with the event counted, while
\* the table holds a subscription (to "a/*", which does not match "d")
C8_Witness ==
    \E t \in Threads :
        /\ InPublish(t) /\ Ended(t)
        /\ frame[t].event.topic = <<"d">>
        /\ frame[t].matches = <<>>
        /\ frame[t].notified = 0
        /\ frame[t].result = "returned"
        /\ topicStats(<<"d">>).eventCount = 1
        /\ m_subscriptions # EmptyMap
        /\ NoLiveMatch(<<"d">>)

\* C11: a request on a topic with no registered handler returns "no value" as
\* a normal result: the call ends at once without running a handler and
\* without raising, and the request-handler map, the subscription table, the
\* subscriber index and the topic stats are unchanged.
C11_RequestWithoutHandler ==
    [][\A t \in Threads, topic \in Topics, d \in DataVals, s \in Senders :
          (request(t, topic, d, s) /\ ~hasHandler(topic)) =>
             /\ frame'[t].pc = "idle"
             /\ frame'[t].result = "novalue"
             /\ frame'[t].handler = ""
             /\ UNCHANGED <<m_requestHandlers, m_subscriptions, m_subscriberIndex,
                            m_topicStats>>]_vars

\* C11 witness: a request on a topic without a handler has returned "no
\* value" while another topic has a handler registered
C11_Witness ==
    \E t \in Threads :
        /\ frame[t].op = "request"
        /\ frame[t].pc = "idle"
        /\ frame[t].result = "novalue"
        /\ frame[t].handler = ""
        /\ ~hasHandler(frame[t].event.topic)
        /\ m_requestHandlers # EmptyMap

\* C12: whatever the handler that request invokes raises, the call returns
\* to its caller, with the handler's value or with "no value": no fault ever
\* leaves request.
C12_FaultNeverLeavesRequest ==
    \A t \in Threads :
        (frame[t].op = "request" /\ frame[t].pc = "idle") =>
            frame[t].result \in {"value", "novalue"}

\* the ids an index lists under a subscriber
IdsOf(index, s) == IF s \in DOMAIN index THEN SeqRange(index[s]) ELSE {}

\* C13: under every interleaving of subscribe, publish, unsubscribe and
\* unsubscribeAll, the id a subscribe call returns has not been returned
\* before and is listed by subscriptionsFor(its subscriberId) when the call
\* returns, and an id that subscriptionsFor(s) lists stays listed over every
\* step other than unsubscribe(id) and unsubscribeAll(s).
C13_ReturnedIdStaysListed ==
    [][/\ \A s \in Subscribers :
             \A id \in IdsOf(m_subscriberIndex, s) :
                \/ id \in IdsOf(m_subscriberIndex', s)
                \/ unsubscribe(id)
                \/ unsubscribeAll(s)
       /\ \A p \in Patterns, s \in Subscribers, h \in BOOLEAN, o \in OptionsSet :
             subscribe(p, s, h, o) =>
                /\ ret'.val \notin IssuedIds
                /\ ret'.val \in IdsOf(m_subscriberIndex', s)
                /\ \A i, j \in 1..Len(created') :
                      i # j => created'[i].id # created'[j].id]_vars

\* C13 witness: a subscriber's second subscribe has just returned while a
\* publish is between its critical section and its delivery loop, and
\* subscriptionsFor lists both ids
C13_Witness ==
    /\ Len(created) = 2
    /\ created[1].subscriberId = created[2].subscriberId
    /\ ret = [op |-> "subscribe", val |-> 2]
    /\ subscriptionsFor(created[1].subscriberId) = <<1, 2>>
    /\ \E t \in Threads : frame[t].pc \in {"sort", "loop"}

\* C14: the bus is deadlock-free: with several threads calling the bus and
\* with handlers and slots that call back into it, every call a thread has
\* entered eventually returns (the handlers make finitely many calls).
C14_EveryCallReturns ==
    \A t \in Threads : (Depth(t) > 0) ~> (Depth(t) = 0)

\* C14 witness: a handler that publishSync runs on one thread has called
\* back into the bus and waits for the mutex, which another thread holds
C14_Witness ==
    \E t, u \in Threads :
        /\ Depth(t) = 2
        /\ calls[t].stack[1].op = "publishSync"
        /\ Steps("publishSync")[calls[t].stack[1].pc] = "callback"
        /\ AtStep(t) = "lock"
        /\ u # t
        /\ m_mutex = u

C16_LiteralPatternMatchesItselfOnly ==
    (ret.op = "matchesTopic" /\ "*" \notin SeqRange(ret.val.pattern)) =>
        (ret.val.result <=> ret.val.topic = ret.val.pattern)

\* what a pattern is to match, read left to right: ** one or more
\* characters of any kind (one or more remaining segments), * one or more
\* characters other than "/" (one non-empty segment), any other character
\* itself, and the whole topic string has to be consumed
RECURSIVE WildcardMatch(_, _)
WildcardMatch(p, t) ==
    IF p = <<>> THEN t = <<>>
    ELSE IF IsPrefix(<<"*", "*">>, p)
         THEN \E k \in 1..Len(t) :
                 WildcardMatch(SubSeq(p, 3, Len(p)), SubSeq(t, k + 1, Len(t)))
    ELSE IF Head(p) = "*"
         THEN \E k \in 1..Len(t) :
                 /\ \A i \in 1..k : t[i] # "/"
                 /\ WildcardMatch(Tail(p), SubSeq(t, k + 1, Len(t)))
    ELSE /\ t # <<>> /\ Head(t) = Head(p)
         /\ WildcardMatch(Tail(p), Tail(t))

\* C17: for a pattern with a wildcard, matchesTopic follows the wildcard
\* rules: * matches exactly one
\* non-empty segment and never spans a "/", ** matches one or more remaining
\* segments (so the pattern "**" matches every non-empty topic), and the
\* match is anchored to the whole topic string.
C17_WildcardRules ==
    (ret.op = "matchesTopic" /\ "*" \in SeqRange(ret.val.pattern)) =>
        (ret.val.result <=> WildcardMatch(ret.val.pattern, ret.val.topic))

\* the list an index keeps for a subscriber
ListOf(index, s) == IF s \in DOMAIN index THEN index[s] ELSE <<>>

\* C18: unsubscribe(id) on a live id returns true and removes that one
\* subscription and nothing else (the other entries stay as they were, the
\* id leaves its subscriber's list, the other lists stay); on an unknown or
\* already-removed id it returns false and leaves the subscription table, the
\* subscriber index and the topic stats unchanged.
C18_UnsubscribeRemovesExactlyOne ==
    [][\A id \in Ids :
          unsubscribe(id) =>
             IF id \in DOMAIN m_subscriptions
             THEN /\ ret' = [op |-> "unsubscribe", val |-> TRUE]
                  /\ DOMAIN m_subscriptions' = DOMAIN m_subscriptions \ {id}
                  /\ \A x \in DOMAIN m_subscriptions' :
                        m_subscriptions'[x] = m_subscriptions[x]
                  /\ \A s \in Subscribers :
                        ListOf(m_subscriberIndex', s) =
                           RemoveAll(ListOf(m_subscriberIndex, s), id)
                  /\ m_topicStats' = m_topicStats
             ELSE /\ ret' = [op |-> "unsubscribe", val |-> FALSE]
                  /\ UNCHANGED <<m_subscriptions, m_subscriberIndex,
                                 m_topicStats>>]_vars

\* C18 witness: with two subscriptions of one subscriber created and the
\* first one already removed, a second unsubscribe of the first id has just
\* returned false and the second subscription is still there
C18_Witness ==
    /\ Len(created) = 2
    /\ created[1].subscriberId = created[2].subscriberId
    /\ ret = [op |-> "unsubscribe", val |-> FALSE]
    /\ DOMAIN m_subscriptions = {2}
    /\ subscriptionsFor(created[2].subscriberId) = <<2>>

\* thread t is in a publish call that has not yet entered its critical section
BeforeLock(t) == frame[t].pc = "deliver"

\* C19: topicStats(topic).eventCount is the number of publish / publishSync
\* calls with exactly that topic: the counts of all topics add up to the
\* number of calls made, less the calls that have not yet entered their
\* critical section, and every step changes a topic's count by exactly the
\* number (0 or 1) of calls with that topic that pass their critical section
\* in the step; so a count never decreases, no increment is lost when two
\* threads publish concurrently, and a publish to another topic or the
\* removal of every matching subscription leaves it as it is.
C19_EventCountCountsPublishes ==
    /\ [](topicStats(<<"a", "/", "b">>).eventCount
            + topicStats(<<"a", "/", "c">>).eventCount
            + Cardinality({t \in Threads : BeforeLock(t)}) = clock)
    /\ [][\A topic \in StatsTopics :
             StatsIn(m_topicStats', topic).eventCount =
                StatsIn(m_topicStats, topic).eventCount
                + Cardinality({t \in Threads :
                                 /\ BeforeLock(t)
                                 /\ frame'[t].pc # "deliver"
                                 /\ frame[t].event.topic = topic})]_vars

\* C19 witness: two publishes to a/b overlapped (the call of thread t began
\* first and is still between its critical section and its return, the call
\* of thread u began later and has returned) and an earlier publish went to
\* a/c; the subscription that t matched has been removed since, and the
\* counts are 2 and 1
C19_Witness ==
    \E t, u \in Threads :
        /\ frame[t].pc \in {"sort", "loop"}
        /\ InPublish(u) /\ Ended(u)
        /\ frame[t].event.topic = <<"a", "/", "b">>
        /\ frame[u].event.topic = <<"a", "/", "b">>
        /\ frame[t].event.timestamp < frame[u].event.timestamp
        /\ m_subscriptions = EmptyMap
        /\ created # <<>>
        /\ topicStats(<<"a", "/", "b">>).eventCount = 2
        /\ topicStats(<<"a", "/", "c">>).eventCount = 1
        /\ topicStats(<<"a", "/", "b">>).subscriberCount = 0

\* the live subscriptions of a table that a subscriber owns
OwnedIn(table, s) == {id \in DOMAIN table : table[id].subscriberId = s}

\* C20: subscription changes are atomic with respect to matching: the
\* critical section of a publish leaves the table as it is and its matched
\* set is exactly the set of subscriptions that are live and match at that
\* instant, and unsubscribeAll(s) takes the table in one step from holding
\* all of s's subscriptions to holding none of them, the others untouched;
\* so a publish matches all of s's matching subscriptions or none.
C20_MatchingIsAtomic ==
    [][/\ \A t \in Threads :
             (BeforeLock(t) /\ frame'[t].pc # "deliver") =>
                /\ UNCHANGED <<m_subscriptions, m_subscriberIndex>>
                /\ SeqRange(frame'[t].matches) =
                      {id \in DOMAIN m_subscriptions :
                         matchesTopic(frame[t].event.topic,
                                      m_subscriptions[id].pattern)}
       /\ \A s \in Subscribers :
             unsubscribeAll(s) =>
                /\ OwnedIn(m_subscriptions', s) = {}
                /\ \A o \in Subscribers \ {s} :
                      OwnedIn(m_subscriptions', o) = OwnedIn(m_subscriptions, o)]_vars

\* C20 witness: a publish has matched both subscriptions of a subscriber,
\* and unsubscribeAll has removed both of them right after
C20_Witness ==
    \E t \in Threads :
        /\ InPublish(t)
        /\ frame[t].pc = "sort"
        /\ frame[t].matches = <<1, 2>>
        /\ created[1].subscriberId = created[2].subscriberId
        /\ ret.op = "unsubscribeAll"
        /\ m_subscriptions = EmptyMap

\* C21: no user callback runs while the bus mutex is held: a thread whose
\* innermost call is running user code (a subscription handler, a request
\* handler, a slot of an emitted signal, a posted functor) does not hold
\* m_mutex.
C21_NoCallbackUnderLock ==
    \A t \in Threads : AtStep(t) = "callback" => m_mutex # t

\* C21 witness: a slot connected to a signal of subscribe runs on one thread
\* while another thread is inside a critical section
C21_Witness ==
    \E t, u \in Threads :
        /\ AtStep(t) = "callback"
        /\ Top(t).op = "subscribe"
        /\ u # t
        /\ m_mutex = u

\* the work items of an event, in the order in which they were posted
ItemsOf(event) ==
    LET all == executed \o queue
    IN SelectSeq(all, LAMBDA item : item.event = event)

\* C22: for one asynchronous publish call the handler items are posted in
\* priority-descending order of their subscriptions and the broadcast item
\* is posted after all of them, so a first-in first-out event loop runs the
\* handlers by descending priority and the broadcast last.
C22_PostedByPriorityBroadcastLast ==
    \A t \in Threads :
        frame[t].op = "publish" =>
            LET items == ItemsOf(frame[t].event)
            IN \A i, j \in 1..Len(items) :
                  i < j =>
                     /\ items[i].kind = "handler"
                     /\ items[j].kind = "handler" =>
                           SubscriptionOf(items[i].handler).options.priority
                           >= SubscriptionOf(items[j].handler).options.priority

\* every item ever posted, run or waiting, in posting order
Posted == executed \o queue

\* C23: asynchronous delivery is never cancelled once scheduled: the items
\* posted so far stay as they were posted, in order, whatever happens to the
\* subscriptions (an item leaves the queue only by being run, once, with the
\* event copy it was posted with), and while the event loop keeps
\* processing (the process is alive) the n-th posted item is eventually run.
C23_ScheduledHandlersRun ==
    /\ [][/\ Len(Posted') >= Len(Posted)
          /\ SubSeq(Posted', 1, Len(Posted)) = Posted
          /\ Len(executed') >= Len(executed)
          /\ SubSeq(executed', 1, Len(executed)) = executed]_vars
    /\ \A n \in 1..3 :
          (Len(Posted) >= n) ~> (Len(executed) >= n \/ crashed)

\* C23 witness: the event loop has run a handler although its subscription
\* was removed after the publish had posted it; no removed entry was read
C23_Witness ==
    /\ ~crashed
    /\ \A t \in Threads : ~frame[t].dangling
    /\ \E i \in 1..Len(executed) :
          /\ executed[i].kind = "handler"
          /\ ~Live(executed[i].handler)
          /\ \E t \in Threads : executed[i].event = frame[t].event

\* the matched subscriptions of a call that are to be delivered: those that
\* are not self-excluded, with or without a callback handler
Due(t) ==
    {id \in SeqRange(frame[t].matches) :
        SubscriptionOf(id).options.receiveOwnEvents
        \/ SubscriptionOf(id).subscriberId # frame[t].event.senderId}

\* C24: a publish or publishSync call that has ended has returned a
\* notifiedCount, and the count is the number of subscriptions that were
\* live and matched the topic in the call's critical section and are not
\* self-excluded, those without a callback handler included; the count does
\* not depend on whether the call was publish or publishSync.
C24_NotifiedCount ==
    \A t \in Threads :
        (InPublish(t) /\ Ended(t)) =>
            /\ frame[t].result = "returned"
            /\ frame[t].notified = Cardinality(Due(t))

\* the calls that touch the request-handler map (lines 277-365); the others
\* touch the subscription table, the subscriber index or the topic stats
RegistryOps == {"request", "registerHandler"}

\* C25: the request-handler map has a lock of its own: a thread that waits
\* to enter the critical section of a registry call is never kept out by a
\* thread that is inside the critical section of a subscription-table call,
\* and vice versa.
C25_IndependentLocks ==
    \A t, u \in Threads :
        ~ /\ AtStep(t) = "lock"
          /\ AtStep(u) = "unlock"
          /\ m_mutex = u
          /\ (Top(t).op \in RegistryOps) # (Top(u).op \in RegistryOps)

\* C26: unregisterAllHandlers(handlerId) removes exactly the entries whose
\* handlerId is the argument and leaves every other entry as it was, so
\* hasHandler is false for each removed topic; a topic without an entry can
\* be registered (again), by any handler id; and unregisterHandler(topic)
\* returns true exactly when the topic had an entry, removing only it.
C26_UnregisterAllRemovesExactlyOwn ==
    [][/\ \A id \in HandlerIds :
             unregisterAllHandlers(id) =>
                /\ DOMAIN m_requestHandlers' =
                      {topic \in DOMAIN m_requestHandlers :
                          m_requestHandlers[topic].handlerId # id}
                /\ \A topic \in DOMAIN m_requestHandlers' :
                      m_requestHandlers'[topic] = m_requestHandlers[topic]
       /\ \A topic \in Topics :
             unregisterHandler(topic) =>
                /\ ret' = [op |-> "unregisterHandler", val |-> hasHandler(topic)]
                /\ DOMAIN m_requestHandlers' = DOMAIN m_requestHandlers \ {topic}
                /\ \A other \in DOMAIN m_requestHandlers' :
                      m_requestHandlers'[other] = m_requestHandlers[other]
       /\ \A topic \in Topics, id \in HandlerIds, h \in RequestHandlers :
             (registerHandler(topic, id, h) /\ ~hasHandler(topic)) =>
                /\ ret' = [op |-> "registerHandler", val |-> TRUE]
                /\ topic \in DOMAIN m_requestHandlers'
                /\ m_requestHandlers'[topic].handlerId = id]_vars

\* C26 witness: unregisterAllHandlers has just run; the topic of a request
\* that is still in its handler has lost its entry, and the entry that
\* another handler id registered for the other topic is still there
C26_Witness ==
    /\ ret.op = "unregisterAllHandlers"
    /\ \E t \in Threads :
          /\ frame[t].pc = "responder"
          /\ ~hasHandler(frame[t].event.topic)
          /\ \E other \in DOMAIN m_requestHandlers :
                m_requestHandlers[other].handlerId = "h2"

\* C27: topicStats(topic).lastEventTime never decreases, whatever the
\* interleaving of the concurrent publish / publishSync calls to the topic.
C27_LastEventTimeNeverDecreases ==
    [][\A topic \in StatsTopics :
          StatsIn(m_topicStats', topic).lastEventTime
          >= StatsIn(m_topicStats, topic).lastEventTime]_vars

\* C28: request copies the handler under the lock and invokes the copy after
\* releasing it.  Once unregisterHandler(topic) or unregisterAllHandlers(owner)
\* has run, the entry is gone, and a request that starts then invokes the
\* handler of the entry the topic has at that moment or, without an entry,
\* no handler at all, never a removed one; a request that is already in its
\* handler is not touched by a change of the map, and its invocation ends
\* once, with the handler it copied.
C28_RequestUsesCopiedHandler ==
    [][/\ \A topic \in Topics :
             unregisterHandler(topic) => topic \notin DOMAIN m_requestHandlers'
       /\ \A id \in HandlerIds :
             unregisterAllHandlers(id) =>
                \A topic \in DOMAIN m_requestHandlers' :
                   m_requestHandlers'[topic].handlerId # id
       /\ \A t \in Threads, topic \in Topics, d \in DataVals, s \in Senders :
             request(t, topic, d, s) =>
                IF topic \in DOMAIN m_requestHandlers
                THEN /\ frame'[t].pc = "responder"
                     /\ frame'[t].handler = m_requestHandlers[topic].handler
                ELSE /\ frame'[t].pc = "idle"
                     /\ frame'[t].handler = ""
       /\ \A t \in Threads :
             frame[t].pc = "responder" =>
                /\ (m_requestHandlers' # m_requestHandlers => frame'[t] = frame[t])
                /\ (frame'[t] # frame[t] =>
                       /\ frame'[t].pc = "idle"
                       /\ frame'[t].handler = frame[t].handler
                       /\ frame'[t].event = frame[t].event)]_vars

\* C28 witness: a request is in the handler f it copied while the entry of
\* its topic is gone, and a request of the other thread on the same topic has
\* found no handler
C28_Witness ==
    \E t, u \in Threads :
        /\ u # t
        /\ frame[t].pc = "responder"
        /\ frame[t].handler = "f"
        /\ ~hasHandler(frame[t].event.topic)
        /\ frame[u].op = "request"
        /\ frame[u].result = "novalue"
        /\ frame[u].handler = ""
        /\ frame[u].event.topic = frame[t].event.topic
        /\ ret.op \in {"unregisterHandler", "unregisterAllHandlers"}

\* C29: the two channels are disjoint.  No step of a request call runs or
\* posts a subscription handler or emits or posts the broadcast, or changes
\* the subscription table, the subscriber index or the topic stats; the only
\* callback it runs is a request handler.  No step of a publish or
\* publishSync call runs a request handler or changes the request-handler
\* map.
C29_ChannelsAreDisjoint ==
    [][\A t \in Threads :
          /\ (frame'[t].op = "request" /\ frame'[t] # frame[t]) =>
                /\ UNCHANGED <<m_subscriptions, m_subscriberIndex, m_topicStats,
                               queue, executed>>
                /\ frame'[t].ran = <<>>
                /\ frame'[t].emitted = <<>>
                /\ frame'[t].pc \in {"idle", "responder"}
                /\ frame'[t].handler \in {""} \cup RequestHandlers
          /\ (frame'[t].op \in {"publish", "publishSync"} /\ frame'[t] # frame[t]) =>
                /\ m_requestHandlers' = m_requestHandlers
                /\ frame'[t].pc # "responder"
                /\ frame'[t].handler = ""]_vars

\* C29 witness: after a publishSync to a/b has run a subscription handler
\* and returned, a request on a/b is in the request handler; the matching
\* subscription is still there and the topic's eventCount is still 1
C29_Witness ==
    \E t, u \in Threads :
        /\ frame[t].op = "publishSync" /\ Ended(t)
        /\ frame[t].ran # <<>>
        /\ frame[t].event.topic = <<"a", "/", "b">>
        /\ frame[u].op = "request"
        /\ frame[u].pc = "responder"
        /\ frame[u].event.topic = <<"a", "/", "b">>
        /\ ~NoLiveMatch(<<"a", "/", "b">>)
        /\ topicStats(<<"a", "/", "b">>).eventCount = 1

\* C30: setCurrentRoute(r) emits navigationChanged exactly when r differs
\* from the current route, and currentRoute() returns r afterwards; with r
\* the current route it changes nothing and emits nothing.  It takes any
\* route, registered or not, and leaves the route list alone; registerRoute
\* never changes the current route and emits nothing.
C30_SetCurrentRoute ==
    [][/\ \A r \in Routes :
             setCurrentRoute(r) =>
                /\ m_currentRoute' = r
                /\ m_routes' = m_routes
                /\ IF r # currentRoute
                   THEN navigationChanged' =
                           Append(navigationChanged, [route |-> r, params |-> {}])
                   ELSE /\ navigationChanged' = navigationChanged
                        /\ m_currentRoute' = m_currentRoute
       /\ \A r \in Routes, c \in Components :
             registerRoute(r, c) =>
                /\ m_currentRoute' = m_currentRoute
                /\ navigationChanged' = navigationChanged]_vars

\* C30 witness: setCurrentRoute("orders") has just been called a second time
\* in a row and emitted nothing; "orders" is the current route, is not a
\* registered route, and the one signal of the first call is all there is
C30_Witness ==
    /\ ret = [op |-> "setCurrentRoute",
              val |-> [route |-> "orders", changed |-> FALSE]]
    /\ m_currentRoute = "orders"
    /\ navigationChanged = <<[route |-> "orders", params |-> {}]>>
    /\ m_routes # <<>>
    /\ getPageUrl("orders") = ""
    /\ getPageUrl("home") # ""

====
